---- MODULE Spec2Model ----
(***************************************************************************)
(* Position-synchronised lighting engine of dune-weaver                    *)
(* (src/modules/led/led_controller.py, class LEDController).               *)
(*                                                                         *)
(* Units.  Python floats are modelled in fixed point:                      *)
(*   theta    milliradians (integer), or the non-finite value nan          *)
(*   rho      thousandths                                                  *)
(*   progress thousandths, speed hundredths                                *)
(*   time     milliseconds (time.time() * 1000)                            *)
(* An optional argument (Python None or a value) is the empty set or a     *)
(* singleton set.                                                          *)
(***************************************************************************)
EXTENDS Integers, Sequences, FiniteSets, TLC

----------------------------------------------------------------------------
(* Bounds of the model *)

\* configure_localized_mode is called with total_leds in 0..MaxLeds
MaxLeds == 2
\* the driving loop makes at most MaxTicks calls of sync_position (Spec) ...
MaxTicks == 2
\* ... and at most MaxGateTicks when only the throttle gate's configuration
\* changes (SpecGate)
MaxGateTicks == 3

----------------------------------------------------------------------------
(* Program constants *)

\* 2 * math.pi, in milliradians
TwoPi == 6283
\* significant_change_threshold = 0.1, in milliradians / thousandths
Threshold == 100
\* sync_throttle_ms <= 10 switches the gate off in localized mode
LowThrottle == 10
\* self.sync_throttle_ms = 20
DefaultThrottle == 20
\* self.total_leds = 60, self.segment_width = 8
DefaultLeds == 60
DefaultWidth == 8
\* time.time() * 1000 when the controller is built: a positive epoch time,
\* far above every throttle value
StartMs == 1000
\* the driving loop calls sync_position every TickMs milliseconds
TickMs == 5

Modes == <<"position", "speed", "progress", "trail", "demo", "localized">>
ModeSet == {Modes[i] : i \in 1..Len(Modes)}

----------------------------------------------------------------------------
(* Optional values and Python arithmetic *)

None == {}
Some(v) == {v}
IsNone(x) == x = {}
Val(x) == CHOOSE v \in x : TRUE
\* Python "x or 0" on an optional number
OrZero(x) == IF IsNone(x) THEN 0 ELSE Val(x)
Opt(S) == {None} \cup {Some(v) : v \in S}

Abs(a) == IF a < 0 THEN -a ELSE a
Min(a, b) == IF a < b THEN a ELSE b
Max(a, b) == IF a > b THEN a ELSE b
\* int(a / b) for b > 0: Python int() truncates toward zero
Trunc(a, b) == IF a >= 0 THEN a \div b ELSE -((-a) \div b)

\* A float theta: nan is the non-finite value (nan or an infinity, which
\* "% (2 * math.pi)" turns into nan); mrad is its value otherwise.
Finite(t) == [nan |-> FALSE, mrad |-> t]
NaN == [nan |-> TRUE, mrad |-> 0]

----------------------------------------------------------------------------
(* Results. A Python dict result is a record: connected is "True", "False" *)
(* or "absent" (the key is missing); raised names an exception that leaves  *)
(* the function instead of a result ("none": the function returned).       *)

Ret(c, m) == [connected |-> c, message |-> m, raised |-> "none"]
Raise(e) == [connected |-> "absent", message |-> "", raised |-> e]
Returned(r) == r.raised = "none"

\* A call's outcome: the result, and the commands handed to _send_command,
\* in order, each with the outcome of the device interaction.
Out(r, s) == [ret |-> r, sent |-> s]

----------------------------------------------------------------------------
(* Colour mapping *)

\* _theta_to_hue: int((theta % 2pi) / 2pi * 360); int(nan) raises ValueError
theta_to_hue(t) == (((t % TwoPi) * 360) \div TwoPi)

\* _rho_to_brightness: clamp rho to [0, 1], then int(min + rho * (max - min))
rho_to_brightness(rho, min_brightness, max_brightness) ==
    LET r == Max(0, Min(1000, rho))
    IN  Trunc(min_brightness * 1000 + r * (max_brightness - min_brightness), 1000)

\* _hsv_to_rgb(h, 1.0, 1.0): colorsys.hsv_to_rgb at full saturation and value,
\* each channel int(c * 255); h is the hue in degrees
hsv_to_rgb(h) ==
    LET i == (h \div 60) % 6
        f == h - 60 * (h \div 60)
        t == (f * 255) \div 60
        q == ((60 - f) * 255) \div 60
    IN  CASE i = 0 -> <<255, t, 0>>
          [] i = 1 -> <<q, 255, 0>>
          [] i = 2 -> <<0, 255, t>>
          [] i = 3 -> <<0, q, 255>>
          [] i = 4 -> <<t, 0, 255>>
          [] OTHER -> <<255, 0, q>>

----------------------------------------------------------------------------
(* The lighting device *)

\* Outcomes of one device interaction when an address is configured:
\*   ok          every request succeeds
\*   unreachable requests raises RequestException (refused, timeout, HTTP error)
\*   bad_json    response.json() raises a JSON decode error (a ValueError)
\*   unexpected  any other exception, e.g. AttributeError on a JSON body that
\*               is not an object
DevOutcomes == {"ok", "unreachable", "bad_json", "unexpected"}
DevFailures == {"no_address", "unreachable", "bad_json", "unexpected"}

\* A segment of a command; a solid-colour command has no start / stop.
Seg(start, stop, col, fx, sx, ix, pal) ==
    [start |-> start, stop |-> stop, col |-> col, fx |-> fx, sx |-> sx, ix |-> ix,
     pal |-> pal]
\* The JSON body posted to /json/state
Cmd(seg, bri, transition) == [seg |-> seg, bri |-> bri, transition |-> transition]

\* _send_command: the three except clauses turn a missing address, a
\* RequestException and a decode error into a connected=False result; any
\* other exception leaves the function.
send_command(params, ipSet, dev) ==
    LET o == IF ipSet THEN dev ELSE "no_address"
        r == CASE o = "no_address" -> Ret("False", "No WLED IP configured")
               [] o = "ok" -> Ret("True", "WLED is ON")
               [] o = "unreachable" -> Ret("False", "Cannot connect to WLED")
               [] o = "bad_json" -> Ret("False", "Expecting value")
               [] OTHER -> Raise("AttributeError")
    IN  Out(r, <<[params |-> params, outcome |-> o]>>)

Invalid(m) == Out(Ret("False", m), <<>>)
InByte(v) == 0 <= v /\ v <= 255

\* set_brightness
set_brightness(value, ipSet, dev) ==
    IF ~InByte(value)
    THEN Invalid("Brightness must be between 0 and 255")
    ELSE send_command(Cmd(<<>>, Some(value), None), ipSet, dev)

\* A hex colour argument: valid with its three bytes, or a string that
\* _hex_to_rgb rejects with ValueError (wrong length, not hexadecimal).
Hex(rgb) == [valid |-> TRUE, rgb |-> rgb]
BadHex == [valid |-> FALSE, rgb |-> <<0, 0, 0>>]

\* "col": [[r or 0, g or 0, b or 0]] with w appended when given
Colour(r, g, b, w) ==
    <<OrZero(r), OrZero(g), OrZero(b)>> \o (IF IsNone(w) THEN <<>> ELSE <<Val(w)>>)

\* set_color
set_color(a, ipSet, dev) ==
    LET hx == ~IsNone(a.hex)
        r == IF hx THEN Some(Val(a.hex).rgb[1]) ELSE a.r
        g == IF hx THEN Some(Val(a.hex).rgb[2]) ELSE a.g
        b == IF hx THEN Some(Val(a.hex).rgb[3]) ELSE a.b
    IN  IF hx /\ ~Val(a.hex).valid
        THEN Invalid("Hex color must be 6 characters long (without #)")
        ELSE IF ~IsNone(a.w) /\ ~InByte(Val(a.w))
        THEN Invalid("White value must be between 0 and 255")
        ELSE send_command(
                 Cmd(<<Seg(None, None, <<Colour(r, g, b, a.w)>>, None, None, None, None)>>,
                     None, None), ipSet, dev)

\* set_effect; the checks are made in the order of the code
set_effect(a, ipSet, dev) ==
    LET hx == ~IsNone(a.hex)
        hx2 == ~IsNone(a.hex2)
        r == IF hx THEN Some(Val(a.hex).rgb[1]) ELSE a.r
        g == IF hx THEN Some(Val(a.hex).rgb[2]) ELSE a.g
        b == IF hx THEN Some(Val(a.hex).rgb[3]) ELSE a.b
        r2 == IF hx2 THEN Some(Val(a.hex2).rgb[1]) ELSE a.r2
        g2 == IF hx2 THEN Some(Val(a.hex2).rgb[2]) ELSE a.g2
        b2 == IF hx2 THEN Some(Val(a.hex2).rgb[3]) ELSE a.b2
        secondary == \E x \in {r2, g2, b2, a.w2} : ~IsNone(x)
        colors == <<Colour(r, g, b, a.w)>>
                      \o (IF secondary THEN <<Colour(r2, g2, b2, a.w2)>> ELSE <<>>)
        seg == Seg(None, None, colors, a.effect_index, a.speed, a.intensity, a.palette)
    IN  CASE IsNone(a.effect_index) ->
                 Invalid("Effect index must be a valid integer between 0 and 101")
          [] ~IsNone(a.effect_index)
               /\ ~(0 <= Val(a.effect_index) /\ Val(a.effect_index) <= 101) ->
                 Invalid("Effect index must be between 0 and 101")
          [] OTHER ->
             IF hx /\ ~Val(a.hex).valid THEN Invalid("Primary color: bad hex")
             ELSE IF hx2 /\ ~Val(a.hex2).valid THEN Invalid("Secondary color: bad hex")
             ELSE IF ~IsNone(a.speed) /\ ~InByte(Val(a.speed))
             THEN Invalid("Speed must be between 0 and 255")
             ELSE IF ~IsNone(a.intensity) /\ ~InByte(Val(a.intensity))
             THEN Invalid("Intensity must be between 0 and 255")
             ELSE IF ~IsNone(a.w) /\ ~InByte(Val(a.w))
             THEN Invalid("Primary white value must be between 0 and 255")
             ELSE IF secondary /\ ~IsNone(a.w2) /\ ~InByte(Val(a.w2))
             THEN Invalid("Secondary white value must be between 0 and 255")
             ELSE IF ~IsNone(a.palette) /\ ~(0 <= Val(a.palette) /\ Val(a.palette) <= 46)
             THEN Invalid("Palette index must be between 0 and 46")
             ELSE IF ~IsNone(a.brightness) /\ ~InByte(Val(a.brightness))
             THEN Invalid("Brightness must be between 0 and 255")
             ELSE send_command(Cmd(<<seg>>, a.brightness, Some(a.transition)), ipSet, dev)

\* The arguments of set_effect left at their defaults
NoArgs ==
    [effect_index |-> Some(0), speed |-> None, intensity |-> None, brightness |-> None,
     palette |-> None, r |-> None, g |-> None, b |-> None, w |-> None, hex |-> None,
     r2 |-> None, g2 |-> None, b2 |-> None, w2 |-> None, hex2 |-> None, transition |-> 0]

----------------------------------------------------------------------------
(* Throttle gate *)

\* The throttle memory: last_sync_time, _last_theta, _last_rho; has_last is
\* hasattr(self, '_last_theta') and hasattr(self, '_last_rho')
Memory(t, h, th, rh) ==
    [last_sync_time |-> t, has_last |-> h, last_theta |-> th, last_rho |-> rh]

\* abs(theta - self._last_theta) > 0.1; a comparison with nan is False
ThetaFar(theta, last) ==
    ~theta.nan /\ ~last.nan /\ Abs(theta.mrad - last.mrad) > Threshold

\* _should_sync_with_position_check: the decision and the memory it leaves
should_sync_with_position_check(mem, current_time, throttle_ms, theta, rho) ==
    LET taken == Memory(current_time, TRUE, theta, rho)
    IN  IF current_time - mem.last_sync_time >= throttle_ms
        THEN [admit |-> TRUE, mem |-> taken]
        ELSE IF mem.has_last
                /\ (ThetaFar(theta, mem.last_theta)
                    \/ Abs(rho - mem.last_rho) > Threshold)
        THEN [admit |-> TRUE, mem |-> taken]
        ELSE [admit |-> FALSE, mem |-> mem]

----------------------------------------------------------------------------
(* Sync strategies *)

ValueError == Out(Raise("ValueError"), <<>>)

\* _sync_position_mode
sync_position_mode(theta, rho, ipSet, dev) ==
    IF theta.nan THEN ValueError
    ELSE LET rgb == hsv_to_rgb(theta_to_hue(theta.mrad))
         IN  set_effect([NoArgs EXCEPT !.effect_index = Some(0),
                             !.r = Some(rgb[1]), !.g = Some(rgb[2]), !.b = Some(rgb[3]),
                             !.brightness = Some(rho_to_brightness(rho, 50, 255)),
                             !.transition = 0], ipSet, dev)

\* _sync_speed_mode; speed is in hundredths
sync_speed_mode(theta, rho, speed, ipSet, dev) ==
    IF theta.nan THEN ValueError
    ELSE LET rgb == hsv_to_rgb(theta_to_hue(theta.mrad))
         IN  set_effect([NoArgs EXCEPT !.effect_index = Some(47),
                             !.r = Some(rgb[1]), !.g = Some(rgb[2]), !.b = Some(rgb[3]),
                             !.speed = Some(Min(255, Trunc(Abs(speed) * 50, 100))),
                             !.intensity = Some(Min(255, Trunc(Abs(speed) * 100, 100))),
                             !.brightness = Some(rho_to_brightness(rho, 50, 255))],
                        ipSet, dev)

\* _sync_progress_mode; progress is in thousandths
sync_progress_mode(theta, rho, progress, ipSet, dev) ==
    IF theta.nan THEN ValueError
    ELSE LET progress_hue == (theta_to_hue(theta.mrad) + Trunc(progress * 120, 1000)) % 360
             rgb == hsv_to_rgb(progress_hue)
         IN  set_effect([NoArgs EXCEPT !.effect_index = Some(0),
                             !.r = Some(rgb[1]), !.g = Some(rgb[2]), !.b = Some(rgb[3]),
                             !.brightness = Some(rho_to_brightness(rho, 50, 255))],
                        ipSet, dev)

\* _sync_trail_mode
sync_trail_mode(theta, rho, ipSet, dev) ==
    IF theta.nan THEN ValueError
    ELSE LET rgb == hsv_to_rgb(theta_to_hue(theta.mrad))
         IN  set_effect([NoArgs EXCEPT !.effect_index = Some(28),
                             !.r = Some(rgb[1]), !.g = Some(rgb[2]), !.b = Some(rgb[3]),
                             !.speed = Some(150), !.intensity = Some(200),
                             !.brightness = Some(rho_to_brightness(rho, 50, 255))],
                        ipSet, dev)

\* the pure colour of the hue sextant in _sync_demo_mode
DemoColour(hue) ==
    CASE hue < 60 -> <<255, 0, 0>>
      [] hue >= 60 /\ hue < 120 -> <<255, 255, 0>>
      [] hue >= 120 /\ hue < 180 -> <<0, 255, 0>>
      [] hue >= 180 /\ hue < 240 -> <<0, 255, 255>>
      [] hue >= 240 /\ hue < 300 -> <<0, 0, 255>>
      [] OTHER -> <<255, 0, 255>>

\* brightness = 100 + int(rho * 155) in _sync_demo_mode (rho is not clamped)
DemoBrightness(rho) == 100 + Trunc(rho * 155, 1000)

\* _sync_demo_mode
sync_demo_mode(theta, rho, ipSet, dev) ==
    IF theta.nan THEN ValueError
    ELSE LET rgb == DemoColour(theta_to_hue(theta.mrad))
         IN  set_effect([NoArgs EXCEPT !.effect_index = Some(0),
                             !.r = Some(rgb[1]), !.g = Some(rgb[2]), !.b = Some(rgb[3]),
                             !.brightness = Some(DemoBrightness(rho)),
                             !.transition = 0], ipSet, dev)

----------------------------------------------------------------------------
(* Segment planner (localized mode) *)

Off == <<0, 0, 0>>
PlanSeg(start, stop, col) == Seg(Some(start), Some(stop), <<col>>, Some(0), None, None, None)

\* led_position = int((theta % 2pi) / 2pi * total_leds)
LedPosition(mrad, total_leds) == ((mrad % TwoPi) * total_leds) \div TwoPi

\* the three segments built in _sync_localized_mode, before the filter
Segments(led_position, total_leds, segment_width, rgb) ==
    LET half_width == segment_width \div 2
        start_led == (led_position - half_width) % total_leds
        end_led == (led_position + half_width) % total_leds
    IN  IF start_led <= end_led
        THEN << PlanSeg(0, IF start_led > 0 THEN start_led - 1 ELSE 0, Off),
                PlanSeg(start_led, end_led, rgb),
                PlanSeg(end_led + 1, total_leds - 1, Off) >>
        ELSE << PlanSeg(0, end_led, rgb),
                PlanSeg(end_led + 1, start_led - 1, Off),
                PlanSeg(start_led, total_leds - 1, rgb) >>

\* valid_segments: the segments with start <= stop
ValidSegments(segments) ==
    SelectSeq(segments, LAMBDA seg : Val(seg.start) <= Val(seg.stop))

\* _sync_localized_mode: the arithmetic of lines 438-449 is outside the try
\* block; an exception of the block (only _send_command can raise there)
\* falls back to _sync_position_mode, which talks to the device again (dev2).
sync_localized_mode(theta, rho, total_leds, segment_width, ipSet, dev, dev2) ==
    IF theta.nan THEN ValueError
    ELSE LET rgb == hsv_to_rgb(theta_to_hue(theta.mrad))
             segments == Segments(LedPosition(theta.mrad, total_leds), total_leds,
                                  segment_width, rgb)
             first == send_command(Cmd(ValidSegments(segments),
                                       Some(rho_to_brightness(rho, 50, 255)), Some(0)),
                                   ipSet, dev)
             fallback == sync_position_mode(theta, rho, ipSet, dev2)
         IN  IF Returned(first.ret) THEN first
             ELSE Out(fallback.ret, first.sent \o fallback.sent)

----------------------------------------------------------------------------
(* sync_position *)

\* The configuration as sync_position reads it. It reads self.sync_mode at
\* line 310 (mode_gate) and again in each comparison of the dispatch chain
\* (mode_at[1..6]), self.position_sync_enabled at line 317, and
\* _sync_localized_mode reads total_leds and then segment_width.
Reads(mode_gate, throttle_ms, enabled, mode_at, total, width) ==
    [mode_gate |-> mode_gate, throttle_ms |-> throttle_ms, enabled |-> enabled,
     mode_at |-> mode_at, total_leds |-> total, segment_width |-> width]

\* every read sees the same configuration
Snapshot(mode, throttle_ms, enabled, total, width) ==
    Reads(mode, throttle_ms, enabled, [i \in 1..6 |-> mode], total, width)

Disabled == Ret("absent", "Position sync disabled")
Throttled == Ret("absent", "Position sync throttled")
UnknownMode == Ret("absent", "Unknown sync mode")
SyncError == Ret("False", "Position sync error")

\* the if / elif chain of lines 323-336
Dispatch(rd, theta, rho, progress, speed, ipSet, dev, dev2) ==
    IF rd.mode_at[1] = "position" THEN sync_position_mode(theta, rho, ipSet, dev)
    ELSE IF rd.mode_at[2] = "speed"
    THEN sync_speed_mode(theta, rho, OrZero(speed), ipSet, dev)
    ELSE IF rd.mode_at[3] = "progress"
    THEN sync_progress_mode(theta, rho, OrZero(progress), ipSet, dev)
    ELSE IF rd.mode_at[4] = "trail" THEN sync_trail_mode(theta, rho, ipSet, dev)
    ELSE IF rd.mode_at[5] = "demo" THEN sync_demo_mode(theta, rho, ipSet, dev)
    ELSE IF rd.mode_at[6] = "localized"
    THEN sync_localized_mode(theta, rho, rd.total_leds, rd.segment_width, ipSet, dev, dev2)
    ELSE Out(UnknownMode, <<>>)

\* Guarded without its except clause
Guarded_no_except(body) == body

\* lines 322-339: "except Exception" turns whatever a strategy raises into a
\* result
Guarded(body) ==
    IF Returned(body.ret) THEN body ELSE Out(SyncError, body.sent)

\* sync_position with the two early returns in the other order
sync_position_throttled_first(rd, mem, current_time, theta, rho, progress, speed, ipSet, dev, dev2) ==
    LET gate == IF rd.mode_gate = "localized" /\ rd.throttle_ms <= LowThrottle
                THEN [admit |-> TRUE, mem |-> mem]
                ELSE should_sync_with_position_check(mem, current_time, rd.throttle_ms,
                                                     theta, rho)
        out == IF ~gate.admit THEN Out(Throttled, <<>>)
               ELSE IF ~rd.enabled THEN Out(Disabled, <<>>)
               ELSE Guarded(Dispatch(rd, theta, rho, progress, speed, ipSet, dev, dev2))
    IN  [ret |-> out.ret, sent |-> out.sent, mem |-> gate.mem, should_sync |-> gate.admit]

\* sync_position: its result, the commands it handed to the device, the
\* throttle memory it leaves and should_sync
sync_position(rd, mem, current_time, theta, rho, progress, speed, ipSet, dev, dev2) ==
    LET gate == IF rd.mode_gate = "localized" /\ rd.throttle_ms <= LowThrottle
                THEN [admit |-> TRUE, mem |-> mem]
                ELSE should_sync_with_position_check(mem, current_time, rd.throttle_ms,
                                                     theta, rho)
        out == IF ~rd.enabled THEN Out(Disabled, <<>>)
               ELSE IF ~gate.admit THEN Out(Throttled, <<>>)
               ELSE Guarded(Dispatch(rd, theta, rho, progress, speed, ipSet, dev, dev2))
    IN  [ret |-> out.ret, sent |-> out.sent, mem |-> gate.mem, should_sync |-> gate.admit]

----------------------------------------------------------------------------
(* Application state (src/modules/core/state.py, class AppState).          *)
(* The attributes are the fields of a record, a property under its public  *)
(* name (pause_requested for _pause_requested). An attribute that can be   *)
(* None is an optional value. A dict (the result of to_dict, the object    *)
(* read from state.json, the keyword arguments of a notification) is a     *)
(* function on its set of keys.                                            *)

\* self._speed = 130 in __init__
ConstructedSpeed == 130
\* data.get("speed", 150) in from_dict
LoadedSpeed == 150

\* the keys of to_dict, which are the keys from_dict reads
Keys ==
    {"stop_requested", "pause_requested", "current_playing_file", "execution_progress",
     "is_clearing", "current_theta", "current_rho", "speed", "machine_x", "machine_y",
     "x_steps_per_mm", "y_steps_per_mm", "gear_ratio", "homing", "current_playlist",
     "current_playlist_name", "current_playlist_index", "playlist_mode", "pause_time",
     "clear_pattern", "port", "wled_ip", "position_sync_enabled", "position_sync_mode",
     "position_sync_throttle_ms", "led_total_leds", "led_segment_width"}

\* the attributes that hold state: those of to_dict, and skip_requested and
\* table_type. (mqtt_handler, conn, led_controller and pause_condition are
\* handles on other components, STATE_FILE is a constant.)
Fields == Keys \cup {"skip_requested", "table_type"}

\* __init__, lines 12-54: the attributes before load() is called
init_attributes ==
    [current_playing_file |-> None, pause_requested |-> FALSE, speed |-> ConstructedSpeed,
     current_playlist |-> None, current_playlist_name |-> None,
     stop_requested |-> FALSE, execution_progress |-> None, is_clearing |-> FALSE,
     current_theta |-> 0, current_rho |-> 0, current_playlist_index |-> Some(0),
     machine_x |-> 0, machine_y |-> 0, x_steps_per_mm |-> 0, y_steps_per_mm |-> 0,
     gear_ratio |-> 10, homing |-> 0,
     mqtt_handler |-> None, port |-> None, wled_ip |-> None, skip_requested |-> FALSE,
     table_type |-> None, playlist_mode |-> "loop", pause_time |-> 0,
     clear_pattern |-> "none",
     position_sync_enabled |-> FALSE, position_sync_mode |-> "position",
     position_sync_throttle_ms |-> 50, led_total_leds |-> 60, led_segment_width |-> 8]

\* the second argument of each data.get of from_dict (None where it has none)
get_default ==
    [stop_requested |-> FALSE, pause_requested |-> FALSE, current_playing_file |-> None,
     execution_progress |-> None, is_clearing |-> FALSE, current_theta |-> 0,
     current_rho |-> 0, speed |-> LoadedSpeed, machine_x |-> 0, machine_y |-> 0,
     x_steps_per_mm |-> 0, y_steps_per_mm |-> 0, gear_ratio |-> 10, homing |-> 0,
     current_playlist |-> None, current_playlist_name |-> None,
     current_playlist_index |-> None, playlist_mode |-> "loop", pause_time |-> 0,
     clear_pattern |-> "none", port |-> None, wled_ip |-> None,
     position_sync_enabled |-> FALSE, position_sync_mode |-> "position",
     position_sync_throttle_ms |-> 50, led_total_leds |-> 60, led_segment_width |-> 8]

\* a dict with no key
EmptyDict == [k \in {} |-> None]
\* dict.get(key, default)
Get(data, key, default) == IF key \in DOMAIN data THEN data[key] ELSE default

\* to_dict
to_dict(s) == [k \in Keys |-> s[k]]

\* from_dict: every attribute of Keys is assigned, the others are left
from_dict(s, data) ==
    [a \in DOMAIN s |-> IF a \in Keys THEN Get(data, a, get_default[a]) ELSE s[a]]

\* state.json: absent, not JSON ("corrupt"), a JSON value that is not an
\* object ("list"), or a JSON object
StateFile(kind, data) == [kind |-> kind, data |-> data]
NoFile == StateFile("absent", EmptyDict)
Corrupt == StateFile("corrupt", EmptyDict)
JsonList == StateFile("list", EmptyDict)
JsonObject(data) == StateFile("object", data)

\* execution_progress is a tuple in the application; JSON has arrays only,
\* which json.load reads as lists
Progress(tuple, items) == [tuple |-> tuple, items |-> items]
\* json.dump of a dict: a tuple is written as an array
json_dump(data) ==
    JsonObject([k \in DOMAIN data |->
                   IF k = "execution_progress" /\ ~IsNone(data[k])
                   THEN Some(Progress(FALSE, Val(data[k]).items))
                   ELSE data[k]])

\* save: the file after it. An exception of open or json.dump is caught and
\* leaves the file as it was.
save(s, file, io) == IF io = "ok" THEN json_dump(to_dict(s)) ELSE file

\* a container and its file
Stored(s, file) == [state |-> s, file |-> file]

\* load: no file: the current attributes are saved; a file: from_dict of
\* what json.load returns; json.load raising on a corrupt file and from_dict
\* raising on a value without get are caught and leave the attributes
load(s, file, io) ==
    IF file.kind = "absent" THEN Stored(s, save(s, file, io))
    ELSE IF file.kind = "object" THEN Stored(from_dict(s, file.data), file)
    ELSE Stored(s, file)

\* AppState(): __init__ assigns the attributes and calls load()
AppState(file, io) == load(init_attributes, file, io)

\* reset_state: self.__init__() and self.save()
reset_state(file, io) ==
    LET fresh == AppState(file, io)
    IN  Stored(fresh.state, save(fresh.state, fresh.file, io))

\* Python truth of a string or None
Truthy(x) == ~IsNone(x) /\ Val(x) # ""
\* "if self.mqtt_handler"
HasHandler(s) == ~IsNone(s.mqtt_handler)
\* what a setter does: the attributes after it, and the notifications it
\* made (the keyword arguments of each)
Written(s, calls) == [state |-> s, calls |-> calls]
\* notifications are made only with a handler attached
Notify(s, call) == IF HasHandler(s) THEN <<call>> ELSE <<>>

\* pause_requested.setter with is_running computed from the value before
\* the write
pause_requested_setter_stale(s, value) ==
    Written([s EXCEPT !.pause_requested = value],
            Notify(s, [is_running |-> Truthy(s.current_playing_file) /\ ~s.pause_requested]))

\* current_playing_file.setter
current_playing_file_setter(s, value) ==
    LET current_file == IF IsNone(value) THEN Some("") ELSE value
    IN  Written([s EXCEPT !.current_playing_file = value],
                Notify(s, [current_file |-> current_file,
                           is_running |-> Truthy(current_file) /\ ~s.pause_requested]))

\* pause_requested.setter
pause_requested_setter(s, value) ==
    Written([s EXCEPT !.pause_requested = value],
            Notify(s, [is_running |-> Truthy(s.current_playing_file) /\ ~value]))

\* speed.setter: publishes on the speed topic when the handler is enabled
speed_setter(s, value) ==
    Written([s EXCEPT !.speed = value],
            IF HasHandler(s) /\ Val(s.mqtt_handler).is_enabled
            THEN <<[speed |-> value]>> ELSE <<>>)

\* current_playlist.setter
current_playlist_setter(s, value) ==
    Written([s EXCEPT !.current_playlist = value,
                      !.current_playlist_name =
                          IF IsNone(value) THEN None ELSE s.current_playlist_name],
            Notify(s, [playlist |-> IF IsNone(value) THEN Some("") ELSE value,
                       playlist_name |-> None]))

\* current_playlist_name.setter
current_playlist_name_setter(s, value) ==
    Written([s EXCEPT !.current_playlist_name = value],
            Notify(s, [playlist_name |-> value]))

----------------------------------------------------------------------------
(* State *)

VARIABLES
    ip_address,             \* None, or the configured address
    position_sync_enabled,
    sync_mode,
    sync_throttle_ms,
    total_leds,
    segment_width,
    memory,                 \* the throttle memory
    now,                    \* the clock, in ms
    last,                   \* the last operation and what it did
    admitted,               \* the sample of the last tick that was enabled
                            \* and admitted (None before the first)
    syncing,                \* a call of sync_position in progress on the
                            \* driving loop's thread (SpecConc)
    configuring,            \* a configuration call in progress on another
                            \* thread (SpecConc)
    state,                  \* the attributes of the AppState singleton
    state_file,             \* state.json
    sink,                   \* the value last passed to the MQTT handler for
                            \* each keyword it was notified of
    wrote,                  \* the last operation on the application state
    restored                \* None, or the attributes of a fresh container
                            \* that was given to_dict() of state

vars == <<ip_address, position_sync_enabled, sync_mode, sync_throttle_ms, total_leds,
          segment_width, memory, now, last, admitted, syncing, configuring,
          state, state_file, sink, wrote, restored>>

\* the application state, which no operation of the controller touches
app == <<state, state_file, sink, wrote, restored>>

threads == <<syncing, configuring>>

config == <<position_sync_enabled, sync_mode, sync_throttle_ms, total_leds, segment_width>>

\* "if not self.ip_address" in _get_base_url
HasAddress == ~IsNone(ip_address) /\ Val(ip_address) # ""

\* What the last operation was and did: a tick records its sample, a device
\* command its arguments.
Did(op, theta, rho, args, should_sync, out) ==
    [op |-> op, theta |-> theta, rho |-> rho, args |-> args, should_sync |-> should_sync,
     ret |-> out.ret, sent |-> out.sent]
\* an operation that returns nothing and sends nothing
Quiet == Did("configuration", Finite(0), 0, NoArgs, FALSE, Out(Ret("absent", ""), <<>>))

\* The configuration, as one value
Config(enabled, mode, throttle_ms, total, width) ==
    [enabled |-> enabled, mode |-> mode, throttle_ms |-> throttle_ms, total_leds |-> total,
     segment_width |-> width]
CurrentConfig ==
    Config(position_sync_enabled, sync_mode, sync_throttle_ms, total_leds, segment_width)
InitialConfig == Config(FALSE, "position", DefaultThrottle, DefaultLeds, DefaultWidth)
\* sync_position with every read taken from the configuration c
SnapshotOf(c) == Snapshot(c.mode, c.throttle_ms, c.enabled, c.total_leds, c.segment_width)

\* A call of sync_position in progress: pc is where it stands, i the
\* comparison of the dispatch chain it is at, rd what it has read so far,
\* mem0 the throttle memory it started from. before and after are the
\* configurations before and after the configuration call that overlaps it
\* (both the configuration it started with when none does).
Syncing(pc, i, input, rd, mem0, before, after, overlapped) ==
    [pc |-> pc, i |-> i, input |-> input, rd |-> rd, mem0 |-> mem0, before |-> before,
     after |-> after, overlapped |-> overlapped]
Input(time, theta, rho, progress, speed, dev, dev2) ==
    [time |-> time, theta |-> theta, rho |-> rho, progress |-> progress, speed |-> speed,
     dev |-> dev, dev2 |-> dev2]
Unread == Reads("unread", 0, FALSE, [i \in 1..6 |-> "unread"], 0, 0)
NotSyncing ==
    Syncing("idle", 0, Input(0, Finite(0), 0, None, None, "ok", "ok"), Unread,
            Memory(0, FALSE, Finite(0), 0), InitialConfig, InitialConfig, FALSE)

\* A configuration call in progress: it has made its first assignment, arg
\* is what its second assignment needs
Configuring(pc, arg, before, after) ==
    [pc |-> pc, arg |-> arg, before |-> before, after |-> after]
NotConfiguring == Configuring("idle", <<>>, InitialConfig, InitialConfig)

\* What an operation on the application state was and did: value is what
\* it was given (a setter's value, an assignment's attribute and value),
\* calls the notifications it made
Wrote(op, value, calls) == [op |-> op, value |-> value, calls |-> calls]

\* The application constructs the AppState singleton on the file it finds
Started(file) ==
    LET a == AppState(file, "ok")
    IN  /\ state = a.state
        /\ state_file = a.file
        /\ sink = EmptyDict
        /\ wrote = Wrote("__init__", file.kind, <<>>)
        /\ restored = None

\* LEDController.__init__
InitController ==
    /\ ip_address = None
    /\ position_sync_enabled = FALSE
    /\ sync_mode = "position"
    /\ sync_throttle_ms = DefaultThrottle
    /\ total_leds = DefaultLeds
    /\ segment_width = DefaultWidth
    /\ memory = Memory(0, FALSE, Finite(0), 0)
    /\ now = StartMs
    /\ last = Quiet
    /\ admitted = None
    /\ syncing = NotSyncing
    /\ configuring = NotConfiguring

\* The controller, in an application started without a state file
Init == InitController /\ Started(NoFile)

----------------------------------------------------------------------------
(* Inputs *)

Addresses == {"192.168.1.40"}
ThrottleValues == {LowThrottle, DefaultThrottle}
ModeArgs == ModeSet \cup {"rainbow"}
\* two angles less than 0.1 apart, one far from both and below zero, and nan
Thetas == {Finite(0), Finite(50), Finite(-2283), NaN}
\* the centre, and a radius beyond the intended [0, 1]
Rhos == {0, 1500}
\* progress and speed are read by one strategy each; a tick that is disabled
\* never reaches the device, and the fallback of localized mode is the only
\* second device interaction of a tick
Progresses(mode) == IF mode = "progress" THEN {None, Some(500)} ELSE {None}
Speeds(mode) == IF mode = "speed" THEN {None, Some(-300)} ELSE {None}
Devs(enabled) == IF enabled THEN DevOutcomes ELSE {"ok"}
Devs2(mode, dev) ==
    IF mode = "localized" /\ dev = "unexpected" THEN DevOutcomes ELSE {"ok"}

----------------------------------------------------------------------------
(* Operations *)

\* set_ip
set_ip(ip) ==
    /\ ip_address' = Some(ip)
    /\ last' = Quiet
    /\ UNCHANGED <<app, config, memory, now, admitted, threads>>

\* enable_position_sync: an unknown mode leaves sync_mode as it is
enable_position_sync(enabled, mode) ==
    /\ position_sync_enabled' = enabled
    /\ sync_mode' = IF mode \in ModeSet THEN mode ELSE sync_mode
    /\ last' = Quiet
    /\ UNCHANGED <<app, ip_address, sync_throttle_ms, total_leds, segment_width, memory, now,
                   admitted, threads>>

\* configure_localized_mode
configure_localized_mode(total, width) ==
    /\ total_leds' = Max(1, total)
    /\ segment_width' = Max(1, Min(width, total))
    /\ last' = Quiet
    /\ UNCHANGED <<app, ip_address, position_sync_enabled, sync_mode, sync_throttle_ms, memory,
                   now, admitted, threads>>

\* sync_throttle_ms is a plain attribute: the application assigns its
\* position_sync_throttle_ms setting to it
set_throttle(ms) ==
    /\ sync_throttle_ms' = ms
    /\ last' = Quiet
    /\ UNCHANGED <<app, ip_address, position_sync_enabled, sync_mode, total_leds, segment_width,
                   memory, now, admitted, threads>>

\* One tick of the driving loop: TickMs after the previous one it calls
\* sync_position(theta, rho, progress, speed); dev and dev2 are the outcomes
\* of its device interactions.
Tick(theta, rho, progress, speed, dev, dev2) ==
    /\ now' = now + TickMs
    /\ LET rd == Snapshot(sync_mode, sync_throttle_ms, position_sync_enabled, total_leds,
                          segment_width)
           r == sync_position(rd, memory, now', theta, rho, progress, speed, HasAddress,
                              dev, dev2)
       IN  /\ memory' = r.mem
           /\ last' = Did("sync_position", theta, rho, NoArgs, r.should_sync, r)
           /\ admitted' = IF position_sync_enabled /\ r.should_sync
                          THEN Some([time |-> now', theta |-> theta, rho |-> rho])
                          ELSE admitted
    /\ UNCHANGED <<app, ip_address, config, threads>>

\* the number of ticks made so far
Ticks == (now - StartMs) \div TickMs

Next ==
    \/ \E ip \in Addresses : set_ip(ip)
    \/ \E enabled \in BOOLEAN, mode \in ModeArgs : enable_position_sync(enabled, mode)
    \/ \E total \in 0..MaxLeds, width \in 0..(MaxLeds + 1) :
           configure_localized_mode(total, width)
    \/ \E theta \in Thetas \ {Finite(50)}, rho \in Rhos, progress \in Progresses(sync_mode),
          speed \in Speeds(sync_mode), dev \in Devs(position_sync_enabled) :
           \E dev2 \in Devs2(sync_mode, dev) :
               /\ Ticks < MaxTicks
               /\ Tick(theta, rho, progress, speed, dev, dev2)

\* The controller with its configuration calls and the driving loop, at the
\* default throttle
Spec == Init /\ [][Next]_vars

\* The throttle gate over a longer run, with the throttle assigned as well:
\* every device interaction succeeds, the LED strip keeps its default layout
NextGate ==
    \/ \E ip \in Addresses : set_ip(ip)
    \/ \E enabled \in BOOLEAN, mode \in ModeArgs : enable_position_sync(enabled, mode)
    \/ \E ms \in ThrottleValues : set_throttle(ms)
    \/ \E theta \in Thetas, rho \in Rhos, progress \in Progresses(sync_mode),
          speed \in Speeds(sync_mode) :
           /\ Ticks < MaxGateTicks
           /\ Tick(theta, rho, progress, speed, "ok", "ok")

SpecGate == Init /\ [][NextGate]_vars

----------------------------------------------------------------------------
(* Device command operations *)

\* values around the ends of 0..255, of 0..101 and of 0..46
Bytes == {-1, 0, 255, 256}
EffectIndexes == {-1, 0, 101, 102}
Palettes == {-1, 0, 46, 47}
HexArgs == {Hex(<<255, 160, 0>>), BadHex}
ByteFields == {"speed", "intensity", "brightness", "r", "g", "b", "w", "r2", "g2", "b2", "w2"}
ColourFields == {"r", "g", "b", "w"}

\* set_effect called with an effect index and at most one more argument
EffectArgs ==
    LET base == {[NoArgs EXCEPT !.effect_index = fx] : fx \in Opt(EffectIndexes)}
        valid == [NoArgs EXCEPT !.effect_index = Some(47)]
    IN  base
        \cup {[valid EXCEPT ![f] = Some(v)] : f \in ByteFields, v \in Bytes}
        \cup {[valid EXCEPT !.palette = Some(v)] : v \in Palettes}
        \cup {[valid EXCEPT !.hex = Some(h)] : h \in HexArgs}
        \cup {[valid EXCEPT !.hex2 = Some(h)] : h \in HexArgs}
        \cup {[valid EXCEPT !.transition = 7]}

\* set_color called with one colour argument, or a hex colour
ColourArgs ==
    LET none == [NoArgs EXCEPT !.effect_index = None]
    IN  {none}
        \cup {[none EXCEPT ![f] = Some(v)] : f \in ColourFields, v \in Bytes}
        \cup {[none EXCEPT !.hex = Some(h)] : h \in HexArgs}

\* a device command: it changes nothing of the controller
Command(op, args, out) ==
    /\ last' = Did(op, Finite(0), 0, args, FALSE, out)
    /\ UNCHANGED <<app, ip_address, config, memory, now, admitted, threads>>

SetBrightness(value, dev) ==
    Command("set_brightness",
            [NoArgs EXCEPT !.effect_index = None, !.brightness = Some(value)],
            set_brightness(value, HasAddress, dev))

SetColor(a, dev) == Command("set_color", a, set_color(a, HasAddress, dev))

SetEffect(a, dev) == Command("set_effect", a, set_effect(a, HasAddress, dev))

NextCmd ==
    \/ \E ip \in Addresses : set_ip(ip)
    \/ \E value \in Bytes, dev \in DevOutcomes : SetBrightness(value, dev)
    \/ \E a \in ColourArgs, dev \in DevOutcomes : SetColor(a, dev)
    \/ \E a \in EffectArgs, dev \in DevOutcomes : SetEffect(a, dev)

\* The controller used for device commands only
SpecCmd == Init /\ [][NextCmd]_vars

----------------------------------------------------------------------------
(* Operations on the application state *)

\* the controller, which no operation on the application state touches
controller == <<ip_address, config, memory, now, last, admitted, threads>>

\* a file written by an earlier version (no key, or few), a corrupt file, a
\* file that holds a JSON array, and no file
StoredFiles ==
    {NoFile, Corrupt, JsonList, JsonObject(EmptyDict),
     JsonObject([current_playing_file |-> Some("a.thr"), speed |-> 200])}
FileNames == {None, Some(""), Some("a.thr")}
Playlists == {None, Some(<<"a.thr">>)}
PlaylistNames == {None, Some("evening")}
SpeedValues == {ConstructedSpeed, 200}
\* the plain attributes the application assigns, and what it assigns
Assigned ==
    [execution_progress |-> {None, Some(Progress(TRUE, <<1, 10>>))},
     current_playlist_index |-> {Some(0), Some(1)},
     skip_requested |-> BOOLEAN,
     table_type |-> {None, Some("dune_weaver_mini")}]
\* open() or json.dump succeeds, or raises
IoOutcomes == {"ok", "error"}

\* the values last passed to the handler, after one more notification
Merge(received, call) ==
    [k \in DOMAIN received \cup DOMAIN call |->
        IF k \in DOMAIN call THEN call[k] ELSE received[k]]
Received(calls) == IF Len(calls) = 0 THEN sink ELSE Merge(sink, calls[1])

\* a property is assigned: its setter runs
Setter(op, value, w) ==
    /\ state' = w.state
    /\ sink' = Received(w.calls)
    /\ wrote' = Wrote(op, value, w.calls)
    /\ restored' = None
    /\ UNCHANGED <<state_file, controller>>

WriteCurrentPlayingFile(value) ==
    Setter("current_playing_file", value, current_playing_file_setter(state, value))

WritePauseRequested(value) ==
    Setter("pause_requested", value, pause_requested_setter(state, value))

WriteSpeed(value) == Setter("speed", value, speed_setter(state, value))

WriteCurrentPlaylist(value) ==
    Setter("current_playlist", value, current_playlist_setter(state, value))

WriteCurrentPlaylistName(value) ==
    Setter("current_playlist_name", value, current_playlist_name_setter(state, value))

\* a plain attribute is assigned
Assign(attribute, value) ==
    /\ state' = [state EXCEPT ![attribute] = value]
    /\ wrote' = Wrote("assign", attribute, <<>>)
    /\ restored' = None
    /\ UNCHANGED <<state_file, sink, controller>>

\* the MQTT handler sets state.mqtt_handler to itself; it has been notified
\* of nothing yet
AttachHandler(is_enabled) ==
    /\ state' = [state EXCEPT !.mqtt_handler = Some([is_enabled |-> is_enabled])]
    /\ sink' = EmptyDict
    /\ wrote' = Wrote("attach", is_enabled, <<>>)
    /\ restored' = None
    /\ UNCHANGED <<state_file, controller>>

\* state.save()
Save(io) ==
    /\ state_file' = save(state, state_file, io)
    /\ wrote' = Wrote("save", io, <<>>)
    /\ restored' = None
    /\ UNCHANGED <<state, sink, controller>>

\* state.load()
Load(io) ==
    /\ LET l == load(state, state_file, io)
       IN  state' = l.state /\ state_file' = l.file
    /\ wrote' = Wrote("load", io, <<>>)
    /\ restored' = None
    /\ UNCHANGED <<sink, controller>>

\* state.reset_state()
ResetState(io) ==
    /\ LET r == reset_state(state_file, io)
       IN  state' = r.state /\ state_file' = r.file
    /\ wrote' = Wrote("reset_state", io, <<>>)
    /\ restored' = None
    /\ UNCHANGED <<sink, controller>>

\* a container is constructed (on the file as it is) and given to_dict() of
\* state with from_dict
RoundTrip ==
    LET fresh == AppState(state_file, "ok")
    IN  /\ restored' = Some(from_dict(fresh.state, to_dict(state)))
        /\ state_file' = fresh.file
        /\ wrote' = Wrote("from_dict", "to_dict", <<>>)
        /\ UNCHANGED <<state, sink, controller>>

\* The setters and the handler they notify
NextNotify ==
    \/ \E is_enabled \in BOOLEAN : AttachHandler(is_enabled)
    \/ \E value \in FileNames : WriteCurrentPlayingFile(value)
    \/ \E value \in BOOLEAN : WritePauseRequested(value)
    \/ \E value \in SpeedValues : WriteSpeed(value)
    \/ \E value \in Playlists : WriteCurrentPlaylist(value)
    \/ \E value \in PlaylistNames : WriteCurrentPlaylistName(value)
    \/ \E value \in Assigned.execution_progress : Assign("execution_progress", value)

SpecNotify == Init /\ [][NextNotify]_vars

\* The application started on any file
InitStored == InitController /\ \E file \in StoredFiles : Started(file)

\* The state and its file
NextStore ==
    \/ \E value \in SpeedValues : WriteSpeed(value)
    \/ \E attribute \in DOMAIN Assigned : \E value \in Assigned[attribute] :
           Assign(attribute, value)
    \/ \E io \in IoOutcomes : Save(io)
    \/ \E io \in IoOutcomes : Load(io)
    \/ \E io \in IoOutcomes : ResetState(io)
    \/ RoundTrip

SpecStore == InitStored /\ [][NextStore]_vars

----------------------------------------------------------------------------
(* Properties *)

\* the last operation was a call of sync_position
LastTick == last.op = "sync_position"
\* ... that was enabled and passed the throttle gate
LastAdmitted == LastTick /\ position_sync_enabled /\ last.should_sync
\* a step that is a tick
TickStep == now' # now

\* the LED indices of a segment
Indices(seg) == {i \in 0..(total_leds - 1) : Val(seg.start) <= i /\ i <= Val(seg.stop)}

\* C1: in localized mode the segments sent to the device cover every LED
\* index of [0, total_leds) exactly once, and each has start <= stop.
C1_ExactCover ==
    (LastAdmitted /\ sync_mode = "localized" /\ ~last.theta.nan)
    => LET segs == last.sent[1].params.seg
       IN  /\ \A k \in 1..Len(segs) : Val(segs[k].start) <= Val(segs[k].stop)
           /\ \A i \in 0..(total_leds - 1) :
                  Cardinality({k \in 1..Len(segs) : i \in Indices(segs[k])}) = 1

\* the gate is consulted: the configuration is not the special case
\* (localized mode with sync_throttle_ms <= 10) that switches throttling off
GateConsulted == ~(sync_mode = "localized" /\ sync_throttle_ms <= LowThrottle)

\* C2: for an enabled controller whose gate is consulted, a tick less than
\* sync_throttle_ms after the last admitted tick and within 0.1 of its theta
\* and rho returns "throttled", and a tick whose theta or rho is more than
\* 0.1 from the last admitted sample is admitted.
C2_ThrottleGate ==
    [][(TickStep /\ position_sync_enabled /\ GateConsulted /\ ~IsNone(admitted))
       => LET a == Val(admitted)
              t == last'
              theta_near == ~t.theta.nan /\ ~a.theta.nan
                              /\ Abs(t.theta.mrad - a.theta.mrad) <= Threshold
              rho_near == Abs(t.rho - a.rho) <= Threshold
          IN  /\ (now' - a.time < sync_throttle_ms /\ theta_near /\ rho_near)
                     => t.ret = Throttled
              /\ (ThetaFar(t.theta, a.theta) \/ Abs(t.rho - a.rho) > Threshold)
                     => (t.should_sync /\ t.ret # Throttled)]_vars

\* C3: while position sync is disabled, sync_position returns the "disabled"
\* result (never "throttled"), whatever the input, the mode and the throttle
\* memory, and hands nothing to the device.
C3_DisabledShortCircuit ==
    (LastTick /\ ~position_sync_enabled) => (last.ret = Disabled /\ last.sent = <<>>)

\* C3 witness: a disabled tick that the throttle gate rejected
C3_Witness ==
    LastTick /\ ~position_sync_enabled /\ ~last.should_sync /\ last.ret = Disabled

\* C4: a tick made while sync is disabled leaves the throttle memory (last
\* emit time, last theta, last rho) unchanged.
C4_DisabledKeepsMemory ==
    [][(TickStep /\ ~position_sync_enabled) => memory' = memory]_vars

\* C5: after every admitted tick, in every mode and for every throttle
\* value, the throttle memory is that tick's time, theta and rho.
C5_MemoryIsAdmittedSample ==
    LastAdmitted => memory = Memory(now, TRUE, last.theta, last.rho)

\* C6: a tick that is enabled and admitted hands exactly one command to the
\* device, in every mode and for every real theta and rho; a disabled or
\* throttled tick hands none.
C6_OneCommandPerTick ==
    /\ (LastAdmitted /\ ~last.theta.nan) => Len(last.sent) = 1
    /\ (LastTick /\ ~LastAdmitted) => last.sent = <<>>

\* the device interaction that decided the result of the last operation failed
DeviceFailed ==
    last.sent # <<>> /\ last.sent[Len(last.sent)].outcome \in DevFailures

Outside(x, lo, hi) == ~IsNone(x) /\ ~(lo <= Val(x) /\ Val(x) <= hi)

\* an argument of the command is out of range; a hex colour replaces r, g, b
\* (hex2: r2, g2, b2)
OutOfRange(a) ==
    \/ \E f \in {"brightness", "speed", "intensity", "w", "w2"} : Outside(a[f], 0, 255)
    \/ IsNone(a.hex) /\ \E f \in {"r", "g", "b"} : Outside(a[f], 0, 255)
    \/ IsNone(a.hex2) /\ \E f \in {"r2", "g2", "b2"} : Outside(a[f], 0, 255)
    \/ Outside(a.effect_index, 0, 101)
    \/ Outside(a.palette, 0, 46)

\* C8: set_brightness, set_color and set_effect called with an out-of-range
\* argument (byte values, colour channels, white, effect index, palette)
\* return a connected = False result and hand nothing to the device.
C8_ValidatedBeforeSending ==
    (last.op \in {"set_brightness", "set_color", "set_effect"} /\ OutOfRange(last.args))
    => (last.ret.connected = "False" /\ last.sent = <<>>)

\* the segment computation of the last tick raised: in the LED position
\* arithmetic (a non-finite theta) or when sending the segment command
PlannerRaised ==
    \/ last.theta.nan
    \/ last.sent # <<>> /\ last.sent[1].outcome = "unexpected"

\* the command is a solid-colour command
SolidColour(c) == Len(c.seg) = 1 /\ IsNone(c.seg[1].start)

\* C9: in localized mode, a tick whose segment computation raises falls back
\* to sending the position-mode colour command and does not report the error
\* result.
C9_PlannerFallback ==
    (LastAdmitted /\ sync_mode = "localized" /\ PlannerRaised)
    => /\ \E k \in 1..Len(last.sent) : SolidColour(last.sent[k].params)
       /\ last.ret # SyncError

\* the LED indices that the command's segments light (a colour other than off)
LitIndices(segs) ==
    UNION {Indices(segs[k]) : k \in {n \in 1..Len(segs) : segs[n].col[1] # Off}}

\* C11: in localized mode the number of lit LED indices is segment_width;
\* with total_leds = 60, segment_width = 8 and theta = 0 the lit indices are
\* those of [0, 3] and [56, 59].
C11_LitCountIsWidth ==
    (LastAdmitted /\ sync_mode = "localized" /\ ~last.theta.nan)
    => LET lit == LitIndices(last.sent[1].params.seg)
       IN  /\ Cardinality(lit) = segment_width
           /\ (total_leds = 60 /\ segment_width = 8 /\ last.theta = Finite(0))
                  => lit = (0..3) \cup (56..59)

----------------------------------------------------------------------------
(* Configuration calls concurrent with a tick.                             *)
(* LEDController holds no lock: a configuration call on another thread and *)
(* sync_position interleave between any two attribute accesses. Each step  *)
(* below is one read or one assignment of a configuration attribute.       *)

MaxConcTicks == 2

InProgress == syncing.pc \notin {"idle", "done"}

\* the configuration after enable_position_sync(enabled, mode) / after
\* configure_localized_mode(total, width) has run on c
AfterEnable(c, enabled, mode) ==
    [c EXCEPT !.enabled = enabled, !.mode = IF mode \in ModeSet THEN mode ELSE c.mode]
AfterConfigure(c, total, width) ==
    [c EXCEPT !.total_leds = Max(1, total), !.segment_width = Max(1, Min(width, total))]

\* A configuration call begins: at most one overlaps a tick
CallBegins(pc, arg, after) ==
    /\ configuring.pc = "idle"
    /\ InProgress => ~syncing.overlapped
    /\ configuring' = Configuring(pc, arg, CurrentConfig, after)
    /\ syncing' = IF InProgress
                  THEN [syncing EXCEPT !.after = after, !.overlapped = TRUE]
                  ELSE NotSyncing
    /\ last' = IF InProgress THEN last ELSE Quiet

\* enable_position_sync, line 229: self.position_sync_enabled = enabled
EnableWritesEnabled(enabled, mode) ==
    /\ CallBegins("mode", <<mode>>, AfterEnable(CurrentConfig, enabled, mode))
    /\ position_sync_enabled' = enabled
    /\ UNCHANGED <<app, ip_address, sync_mode, sync_throttle_ms, total_leds, segment_width,
                   memory, now, admitted>>

\* enable_position_sync, lines 230-231: self.sync_mode = mode
EnableWritesMode ==
    /\ configuring.pc = "mode"
    /\ sync_mode' = IF configuring.arg[1] \in ModeSet THEN configuring.arg[1] ELSE sync_mode
    /\ configuring' = NotConfiguring
    /\ UNCHANGED <<app, ip_address, position_sync_enabled, sync_throttle_ms, total_leds,
                   segment_width, memory, now, last, admitted, syncing>>

\* configure_localized_mode, line 241: self.total_leds = max(1, total_leds)
ConfigureWritesTotal(total, width) ==
    /\ CallBegins("width", <<total, width>>, AfterConfigure(CurrentConfig, total, width))
    /\ total_leds' = Max(1, total)
    /\ UNCHANGED <<app, ip_address, position_sync_enabled, sync_mode, sync_throttle_ms,
                   segment_width, memory, now, admitted>>

\* configure_localized_mode, line 242: self.segment_width = ...
ConfigureWritesWidth ==
    /\ configuring.pc = "width"
    /\ segment_width' = Max(1, Min(configuring.arg[2], configuring.arg[1]))
    /\ configuring' = NotConfiguring
    /\ UNCHANGED <<app, ip_address, position_sync_enabled, sync_mode, sync_throttle_ms,
                   total_leds, memory, now, last, admitted, syncing>>

\* the throttle is assigned between ticks
ThrottleAssigned(ms) ==
    /\ ~InProgress
    /\ configuring.pc = "idle"
    /\ sync_throttle_ms' = ms
    /\ last' = Quiet
    /\ syncing' = NotSyncing
    /\ UNCHANGED <<app, ip_address, position_sync_enabled, sync_mode, total_leds, segment_width,
                   memory, now, admitted, configuring>>

\* sync_position returns: what it did, computed from what it read
Returns(rd) ==
    LET in == syncing.input
        r == sync_position(rd, syncing.mem0, in.time, in.theta, in.rho, in.progress,
                           in.speed, HasAddress, in.dev, in.dev2)
    IN  /\ last' = Did("sync_position", in.theta, in.rho, NoArgs, r.should_sync, r)
        /\ syncing' = [syncing EXCEPT !.pc = "done", !.rd = rd]
        /\ UNCHANGED admitted

\* sync_position, lines 310-313: reads sync_mode and sync_throttle_ms and
\* consults the gate
SyncConsultsGate(theta, rho, dev, dev2) ==
    /\ ~InProgress
    /\ Ticks < MaxConcTicks
    /\ now' = now + TickMs
    /\ LET rd == [Unread EXCEPT !.mode_gate = sync_mode, !.throttle_ms = sync_throttle_ms]
           r == sync_position(rd, memory, now', theta, rho, None, None, HasAddress,
                              dev, dev2)
           calling == configuring.pc # "idle"
       IN  /\ memory' = r.mem
           /\ syncing' = Syncing("enabled", 0,
                                 Input(now', theta, rho, None, None, dev, dev2), rd, memory,
                                 IF calling THEN configuring.before ELSE CurrentConfig,
                                 IF calling THEN configuring.after ELSE CurrentConfig,
                                 calling)
    /\ UNCHANGED <<app, ip_address, config, last, admitted, configuring>>

\* the gate's decision for the tick in progress
ShouldSync ==
    LET in == syncing.input
    IN  sync_position(syncing.rd, syncing.mem0, in.time, in.theta, in.rho, None, None,
                      HasAddress, in.dev, in.dev2).should_sync

\* sync_position, lines 317-320: reads position_sync_enabled; returns
\* "disabled" or "throttled", or goes on to the dispatch chain
SyncReadsEnabled ==
    /\ syncing.pc = "enabled"
    /\ LET rd == [syncing.rd EXCEPT !.enabled = position_sync_enabled]
       IN  IF rd.enabled /\ ShouldSync
           THEN /\ syncing' = [syncing EXCEPT !.pc = "dispatch", !.i = 1, !.rd = rd]
                /\ UNCHANGED <<last, admitted>>
           ELSE Returns(rd)
    /\ UNCHANGED <<app, ip_address, config, memory, now, configuring>>

\* sync_position, lines 323-336: one comparison of self.sync_mode. A match
\* runs the strategy (localized mode has two more reads to make); the last
\* comparison failing returns "unknown sync mode".
SyncComparesMode ==
    /\ syncing.pc = "dispatch"
    /\ LET i == syncing.i
           rd == [syncing.rd EXCEPT !.mode_at[i] = sync_mode]
       IN  IF sync_mode = Modes[i] /\ i = 6
           THEN /\ syncing' = [syncing EXCEPT !.pc = "total_leds", !.rd = rd]
                /\ UNCHANGED <<last, admitted>>
           ELSE IF sync_mode = Modes[i] \/ i = 6
           THEN Returns(rd)
           ELSE /\ syncing' = [syncing EXCEPT !.i = i + 1, !.rd = rd]
                /\ UNCHANGED <<last, admitted>>
    /\ UNCHANGED <<app, ip_address, config, memory, now, configuring>>

\* _sync_localized_mode, line 434: reads total_leds
SyncReadsTotal ==
    /\ syncing.pc = "total_leds"
    /\ syncing' = [syncing EXCEPT !.pc = "segment_width", !.rd.total_leds = total_leds]
    /\ UNCHANGED <<app, ip_address, config, memory, now, last, admitted, configuring>>

\* _sync_localized_mode, line 435: reads segment_width, and runs to its end
SyncReadsWidth ==
    /\ syncing.pc = "segment_width"
    /\ Returns([syncing.rd EXCEPT !.segment_width = segment_width])
    /\ UNCHANGED <<app, ip_address, config, memory, now, configuring>>

NextConc ==
    \/ \E enabled \in BOOLEAN, mode \in {"position", "demo", "localized"} :
           EnableWritesEnabled(enabled, mode)
    \/ EnableWritesMode
    \/ \E total \in 0..MaxLeds, width \in 0..(MaxLeds + 1) :
           ConfigureWritesTotal(total, width)
    \/ ConfigureWritesWidth
    \/ \E ms \in ThrottleValues : ThrottleAssigned(ms)
    \/ \E theta \in {Finite(0), Finite(-2283)}, rho \in {0} :
           SyncConsultsGate(theta, rho, "ok", "ok")
    \/ SyncReadsEnabled
    \/ SyncComparesMode
    \/ SyncReadsTotal
    \/ SyncReadsWidth

\* The controller with configuration calls made from a second thread
SpecConc == Init /\ [][NextConc]_vars

\* what sync_position returns and sends when it runs on the configuration c
\* alone
OnSnapshot(c) ==
    LET in == syncing.input
        r == sync_position(SnapshotOf(c), syncing.mem0, in.time, in.theta, in.rho,
                           in.progress, in.speed, HasAddress, in.dev, in.dev2)
    IN  Out(r.ret, r.sent)

\* C10: a tick that a configuration call overlaps returns and sends what it
\* would on the configuration before the call or on the configuration after
\* it; in particular it never reports an unknown mode.
C10_TickSeesOneConfiguration ==
    syncing.pc = "done"
    => /\ Out(last.ret, last.sent) \in {OnSnapshot(syncing.before), OnSnapshot(syncing.after)}
       /\ last.ret # UnknownMode

----------------------------------------------------------------------------
(* Properties of the application state *)

\* C12: with a handler attached, a write to current_playing_file or to
\* pause_requested makes one notification whose is_running is
\* (current_playing_file is non-empty and not pause_requested) on the
\* attributes after the write.
C12_IsRunningNotified ==
    (wrote.op \in {"current_playing_file", "pause_requested"} /\ HasHandler(state))
    => /\ Len(wrote.calls) = 1
       /\ wrote.calls[1].is_running
              = (Truthy(state.current_playing_file) /\ ~state.pause_requested)

\* C12 witness: a file is playing and pause_requested is written False: the
\* notification says is_running
C12_Witness ==
    /\ wrote.op = "pause_requested"
    /\ HasHandler(state)
    /\ Truthy(state.current_playing_file)
    /\ ~state.pause_requested
    /\ Len(wrote.calls) = 1
    /\ wrote.calls[1].is_running

\* C13: writing None to current_playlist empties current_playlist_name, and
\* writing None to current_playing_file empties execution_progress, in that
\* write.
C13_ClearingEmptiesDependents ==
    /\ (wrote.op = "current_playlist" /\ IsNone(wrote.value))
           => IsNone(state.current_playlist_name)
    /\ (wrote.op = "current_playing_file" /\ IsNone(wrote.value))
           => IsNone(state.execution_progress)

\* C14: a fresh container given to_dict() of state with from_dict() has
\* every state attribute as state has it.
C14_RoundTrip ==
    ~IsNone(restored) => \A f \in Fields : Val(restored)[f] = state[f]

\* C15: an attribute whose key is absent from the object loaded from
\* state.json has the value it is given at construction, which is the value
\* it has when the file cannot be read.
C15_OneDefault ==
    (wrote.op \in {"__init__", "load"} /\ state_file.kind = "object")
    => \A k \in Keys \ DOMAIN state_file.data : state[k] = init_attributes[k]

\* C16: after reset_state() every state attribute has its default value and
\* state.json holds the defaults.
C16_ResetRestoresDefaults ==
    (wrote.op = "reset_state" /\ wrote.value = "ok")
    => /\ \A f \in Fields : state[f] = init_attributes[f]
       /\ state_file = json_dump(to_dict(init_attributes))

\* None is published as the empty string
Published(x) == IF IsNone(x) THEN Some("") ELSE x

\* C17: with a handler attached, the playlist_name last passed to it is
\* current_playlist_name (None as the empty string).
C17_PublishedNameIsStoredName ==
    (HasHandler(state) /\ "playlist_name" \in DOMAIN sink)
    => Published(sink.playlist_name) = Published(state.current_playlist_name)

====
